---- MODULE Spec2Model ----
(***************************************************************************)
(* Chat-DB: natural-language-to-SQL pipeline (src/utilities.py) and the    *)
(* Streamlit session handlers that call it (src/app.py).                   *)
(*                                                                         *)
(* Text is a sequence of lexemes.  A lexeme is one character (a backtick,  *)
(* a blank, a brace, a quote ...) or one word that none of the string      *)
(* operations of the program can split ("json", "sql", "select", ...).     *)
(* Python values are records with a field "type": str, None, dict,         *)
(* DataFrame.                                                              *)
(***************************************************************************)
EXTENDS Integers, Sequences, FiniteSets, TLC

\* ------------------------------------------------------------------ bounds
MaxQLen == 3          \* longest question, in lexemes
MaxBodyLen == 3       \* longest plain / response body of a completion output
MaxHistory == 3       \* longest question history explored

\* ------------------------------------------------------------------ lexemes
BT == "BACKTICK"        \* the backtick character
SP == " "
NL == "\n"
QUOTE == "\""
Whitespace == {SP, NL}

\* ------------------------------------------------------------------ values
NoneV == [type |-> "None"]
Str(s) == [type |-> "str", s |-> s]
Dict(f) == [type |-> "dict", items |-> f]
DataFrame(sql) == [type |-> "DataFrame", of |-> sql]

\* dict.get(key): the value, or None when the key is absent
DictGet(d, key) == IF key \in DOMAIN d.items THEN d.items[key] ELSE NoneV

\* ------------------------------------------------------------------ str methods
RECURSIVE lstrip(_)
lstrip(s) ==
    IF s # <<>> /\ Head(s) \in Whitespace THEN lstrip(Tail(s)) ELSE s

RECURSIVE rstrip(_)
rstrip(s) ==
    IF s # <<>> /\ s[Len(s)] \in Whitespace
    THEN rstrip(SubSeq(s, 1, Len(s) - 1)) ELSE s

strip(s) == rstrip(lstrip(s))

LowerLexeme(c) ==
    CASE c = "SQL" -> "sql"
      [] c = "SELECT" -> "select"
      [] c = "Drop" -> "drop"
      [] OTHER -> c

lower(s) == [i \in 1..Len(s) |-> LowerLexeme(s[i])]

startswith(s, p) == Len(p) <= Len(s) /\ SubSeq(s, 1, Len(p)) = p

\* str.replace(pat, ""): left to right, non-overlapping occurrences
RECURSIVE RemoveFrom(_, _, _)
RemoveFrom(s, pat, i) ==
    IF i > Len(s) THEN <<>>
    ELSE IF i + Len(pat) - 1 <= Len(s) /\ SubSeq(s, i, i + Len(pat) - 1) = pat
         THEN RemoveFrom(s, pat, i + Len(pat))
         ELSE <<s[i]>> \o RemoveFrom(s, pat, i + 1)

Remove(s, pat) == RemoveFrom(s, pat, 1)

FenceJson == <<BT, BT, BT, "json">>
FenceSql == <<BT, BT, BT, "sql">>
Fence == <<BT, BT, BT>>
SqlPrefix == <<"sql", SP>>

\* ------------------------------------------------------------------ json.loads
\* The grammar covered: an object whose keys are strings and whose values are
\* strings or null, a bare string, or a bare null, with blanks between lexemes.
RECURSIVE SkipWS(_, _)
SkipWS(s, i) ==
    IF i <= Len(s) /\ s[i] \in Whitespace THEN SkipWS(s, i + 1) ELSE i

RECURSIVE ClosingQuote(_, _)
ClosingQuote(s, j) ==
    IF j > Len(s) \/ s[j] = NL THEN 0
    ELSE IF s[j] = QUOTE THEN j
    ELSE ClosingQuote(s, j + 1)

NoParse == [ok |-> FALSE, val |-> NoneV, next |-> 0]

ParseString(s, i) ==
    IF i <= Len(s) /\ s[i] = QUOTE /\ ClosingQuote(s, i + 1) > 0
    THEN LET j == ClosingQuote(s, i + 1)
         IN [ok |-> TRUE, val |-> Str(SubSeq(s, i + 1, j - 1)), next |-> j + 1]
    ELSE NoParse

ParseScalar(s, i) ==
    IF i <= Len(s) /\ s[i] = "null"
    THEN [ok |-> TRUE, val |-> NoneV, next |-> i + 1]
    ELSE ParseString(s, i)

\* members of an object from position i on; acc holds the pairs read so far
\* (a later pair with the same key replaces the earlier one, as in a dict)
RECURSIVE ParseMembers(_, _, _)
ParseMembers(s, i, acc) ==
    LET k == ParseString(s, i) IN
    IF ~k.ok THEN NoParse
    ELSE LET c == SkipWS(s, k.next) IN
         IF ~(c <= Len(s) /\ s[c] = ":") THEN NoParse
         ELSE LET v == ParseScalar(s, SkipWS(s, c + 1)) IN
              IF ~v.ok THEN NoParse
              ELSE LET acc2 == [x \in DOMAIN acc \cup {k.val.s} |->
                                   IF x = k.val.s THEN v.val ELSE acc[x]]
                       e == SkipWS(s, v.next)
                   IN IF e > Len(s) THEN NoParse
                      ELSE IF s[e] = "}"
                           THEN [ok |-> TRUE, val |-> Dict(acc2), next |-> e + 1]
                      ELSE IF s[e] = ","
                           THEN ParseMembers(s, SkipWS(s, e + 1), acc2)
                      ELSE NoParse

EmptyItems == [x \in {} |-> NoneV]

ParseValue(s, i) ==
    IF i <= Len(s) /\ s[i] = "{"
    THEN LET m == SkipWS(s, i + 1) IN
         IF m <= Len(s) /\ s[m] = "}"
         THEN [ok |-> TRUE, val |-> Dict(EmptyItems), next |-> m + 1]
         ELSE ParseMembers(s, m, EmptyItems)
    ELSE ParseScalar(s, i)

\* ok = FALSE stands for json.JSONDecodeError (trailing data included)
json_loads(s) ==
    LET r == ParseValue(s, SkipWS(s, 1)) IN
    IF r.ok /\ SkipWS(s, r.next) > Len(s) THEN r ELSE NoParse

\* ------------------------------------------------------------------ get_sql_query
KeyStatus == <<"status">>
KeyResponse == <<"response">>

Outcome(status, response) ==
    Dict([k \in {KeyStatus, KeyResponse} |->
             IF k = KeyStatus THEN Str(<<status>>) ELSE response])

sql_verbs ==
    {"select", "show", "insert", "update", "delete", "create", "drop", "alter"}

\* the verb test without .lower()
StartsWithSqlVerb_CaseSensitive(s) ==
    \E v \in sql_verbs : startswith(lstrip(s), <<v>>)

\* any(sql_candidate.lower().lstrip().startswith(v) for v in sql_verbs)
StartsWithSqlVerb(s) ==
    \E v \in sql_verbs : startswith(lstrip(lower(s)), <<v>>)

\* the reply of generate_content: text, or an exception with its message
Reply(text) == [type |-> "reply", raised |-> FALSE, text |-> text]
Raise(msg) == [type |-> "reply", raised |-> TRUE, text |-> msg]

\* ai_text, then the fences and a leading "sql " (two lexemes) removed
Cleaned(text) ==
    LET ai_text == strip(text)
        c == strip(Remove(Remove(Remove(ai_text, FenceJson), FenceSql), Fence))
    IN IF startswith(lower(c), SqlPrefix)
       THEN strip(SubSeq(c, Len(SqlPrefix) + 1, Len(c)))
       ELSE c

\* the try / except json.JSONDecodeError block on the cleaned text
Interpret(cleaned) ==
    LET parsed == json_loads(cleaned) IN
    IF parsed.ok
    THEN IF parsed.val.type = "dict"
            /\ KeyStatus \in DOMAIN parsed.val.items
            /\ KeyResponse \in DOMAIN parsed.val.items
         THEN parsed.val
         ELSE Outcome("error",
                  Str(<<"Model returned JSON but missing keys: ">> \o cleaned))
    ELSE IF cleaned = <<>>
         THEN Outcome("error", Str(<<"Model returned empty response.">>))
    ELSE IF StartsWithSqlVerb(cleaned)
         THEN Outcome("success", Str(cleaned))
    ELSE Outcome("error",
             Str(<<"Model returned unexpected format:\n">> \o cleaned))

\* get_sql_query without its outer except clause
except_get_sql_query_Missing(v) == v

\* except Exception as e: return {"status": "error", "response": f"AI communication error: {e}"}
except_get_sql_query(v) ==
    IF v.type = "exception"
    THEN Outcome("error", Str(<<"AI communication error: ">> \o v.msg))
    ELSE v

get_sql_query(r) ==
    except_get_sql_query(
        IF r.raised THEN [type |-> "exception", msg |-> r.text]
        ELSE Interpret(Cleaned(r.text)))

\* ------------------------------------------------------------------ completion outputs explored
RECURSIVE SeqsUpTo(_, _)
SeqsUpTo(A, n) ==
    IF n = 0 THEN {<<>>}
    ELSE LET shorter == SeqsUpTo(A, n - 1)
         IN shorter \cup {Append(t, a) : t \in {u \in shorter : Len(u) = n - 1}, a \in A}

BodyAlphabet == {BT, SP, "SELECT", "x"}
BodyTexts == SeqsUpTo(BodyAlphabet, MaxBodyLen)

JsonString(s) == <<QUOTE>> \o s \o <<QUOTE>>

\* { "status": "<status>", "response": <value> }
Envelope(status, value) ==
    <<"{">> \o JsonString(KeyStatus) \o <<":", SP>> \o JsonString(<<status>>)
        \o <<",", SP>> \o JsonString(KeyResponse) \o <<":", SP>> \o value \o <<"}">>

Statuses == {"success", "clarification_needed", "error", "Success"}

Envelopes ==
    {Envelope(st, JsonString(r)) : st \in Statuses, r \in BodyTexts}
    \cup {Envelope(st, <<"null">>) : st \in Statuses}

OtherBodies ==
    { <<"{", "}">>,
      <<"{">> \o JsonString(KeyStatus) \o <<":">> \o JsonString(<<"success">>) \o <<"}">>,
      <<"{">> \o JsonString(KeyStatus) \o <<":">> \o JsonString(<<"success">>),
      JsonString(<<"select">>),
      <<"null">>,
      Envelope("success", JsonString(<<"x">>)) \o <<"x">>,
      <<"{">> \o JsonString(KeyStatus) \o <<":">> \o JsonString(<<"error">>) \o <<",">>
          \o JsonString(KeyStatus) \o <<":">> \o JsonString(<<"success">>) \o <<",">>
          \o JsonString(KeyResponse) \o <<":">> \o JsonString(<<"select">>) \o <<"}">>,
      <<"select", SP, "x">>, <<"Drop", SP, "x">>, <<"sql", SP, "select">>,
      <<"show">>, <<"insert">>, <<"update">>, <<"delete">>, <<"create">>,
      <<"alter">>, <<"x", SP, "select">> }

Prefixes == {<<>>, Fence, FenceJson, FenceSql \o <<NL>>, <<"SQL", SP>>, <<SP>>}
Suffixes == {<<>>, <<NL>> \o Fence, <<SP>>}

RawOutputs ==
    {p \o b \o s : p \in Prefixes, b \in Envelopes \cup BodyTexts \cup OtherBodies,
                   s \in Suffixes}

ExcMessages == {<<"timeout">>, <<"quota exceeded">>}

Replies == {Reply(t) : t \in RawOutputs} \cup {Raise(e) : e \in ExcMessages}

\* ------------------------------------------------------------------ state
VARIABLES
    db,               \* the database: table name -> stored CREATE statement, or "absent"
    dialect,          \* engine.dialect.name.lower()
    held,             \* connections acquired by the core and not yet released
    pc,               \* control point of the running call
    caller,           \* who called get_db_schema: "text2sql" or "app"
    origin,           \* who called text2sql: "api" (a direct call) or "ui" (Execute)
    escaped,          \* an exception left text2sql / get_db_schema uncaught
    engine_ok,        \* isinstance(engine, Engine) for the running call
    user_query,       \* text2sql's question
    tables,           \* get_db_schema: inspector.get_table_names()
    schema,           \* get_db_schema: the schema text built so far
    ti,               \* get_db_schema: index of the table the loop is at
    pending,          \* the value (or exception) leaving a with-block
    db_schema,        \* text2sql: what get_db_schema returned
    contextual_prompt,\* text2sql: the composed prompt
    reply,            \* what generate_content answered for this request
    output,           \* text2sql: what get_sql_query returned
    sql_query,        \* text2sql: output.get("response")
    result,           \* text2sql: what execute_query returned
    ret,              \* the pair text2sql returned
    stages,           \* the components this request has invoked, in order
    live_schema,      \* the database as it was when this request enumerated it
    schema_text,      \* what the previous get_db_schema call of a direct caller
                      \* returned, if text2sql was not called since
    changed,          \* the schema changed since schema_text was fetched
    question_history, \* st.session_state.question_history
    last_sql_query,   \* st.session_state.last_sql_query
    last_result,      \* st.session_state.last_result
    show_history      \* st.session_state.show_history

envVars == <<db, dialect>>
gsVars == <<tables, schema, ti>>
t2sVars == <<user_query, db_schema, contextual_prompt, reply, output, sql_query,
             result, ret>>
ghostVars == <<stages, live_schema>>
uiVars == <<question_history, last_sql_query, last_result, show_history>>
viewVars == <<schema_text, changed>>
vars == <<db, dialect, held, pc, caller, origin, escaped, engine_ok, user_query,
          tables, schema, ti, pending, db_schema, contextual_prompt, reply,
          output, sql_query, result, ret, stages, live_schema,
          schema_text, changed, question_history, last_sql_query, last_result,
          show_history>>

\* ------------------------------------------------------------------ the database
TableNames == <<"customers", "orders">>
TableSet == {TableNames[i] : i \in 1..Len(TableNames)}
DDLs == {"ddl_v1", "ddl_v2"}
Databases == [TableSet -> DDLs \cup {"absent"}]
Dialects == {"sqlite", "mysql", "postgresql"}
DbErrors == {<<"database is locked">>}

Exc(msg) == [type |-> "exception", msg |-> msg]
IsExc(v) == v.type = "exception"

\* the table list remembered from a first enumeration of a full database
get_table_names_Cached(d) == TableNames

\* inspector.get_table_names(): the tables present, in enumeration order
get_table_names(d) == SelectSeq(TableNames, LAMBDA t : d[t] # "absent")

\* inspector.get_columns(table), joined as "name type, ..."
col_text(ddl) == IF ddl = "ddl_v1" THEN "id INTEGER" ELSE "id INTEGER, name TEXT"

\* the CREATE statement of one table, per dialect
create_stmt(d, dia, table) ==
    IF dia = "mysql"
        THEN IF d[table] # "absent" THEN <<d[table]>> ELSE <<"/* could not fetch */">>
    ELSE IF dia = "sqlite"
        THEN IF d[table] # "absent" THEN <<d[table]>>
             ELSE <<"/* CREATE statement not found for ", table, " */">>
    ELSE <<"CREATE TABLE ", table, " (", col_text(d[table]), ");">>

\* f"**{table} table:**\n```sql\n{create_stmt}\n```\n\n"
Block(table, stmt) ==
    <<"**", table, " table:**", NL>> \o FenceSql \o <<NL>> \o stmt
        \o <<NL>> \o Fence \o <<NL, NL>>

NoTablesWarning == Str(<<"No tables found in the connected database.">>)
InvalidEngineSchema == Str(<<"Invalid engine passed to get_db_schema()">>)
SchemaErrorPrefix == "Error loading DB schema: "

\* get_db_schema without its except clause
except_get_db_schema_Missing(v) == v

\* except Exception as e: return f"... Error loading DB schema: {e}"
except_get_db_schema(v) ==
    IF IsExc(v) THEN Str(<<SchemaErrorPrefix>> \o v.msg) ELSE v

\* conn.close() at the end of the block instead of a with-statement
ReleaseOnExit_Leak(h, raised) == IF raised THEN h ELSE h - 1

\* leaving "with engine.connect() as conn": the connection is released,
\* whether the block ended normally or raised
ReleaseOnExit(h, raised) == h - 1

\* ------------------------------------------------------------------ get_db_schema
InGetDbSchema == pc \in {"gs_connect", "gs_loop", "gs_exit"}

\* get_db_schema returns val to its caller; neither caller has a try around it
GS_Return(val) ==
    /\ tables' = <<>>
    /\ schema' = <<>>
    /\ ti' = 0
    /\ pending' = NoneV
    /\ IF IsExc(val)
       THEN /\ pc' = "raised"
            /\ escaped' = TRUE
            /\ UNCHANGED <<db_schema, schema_text, changed>>
       ELSE IF caller = "text2sql"
       THEN /\ pc' = "t2s_complete"
            /\ db_schema' = val
            /\ UNCHANGED <<escaped, schema_text, changed>>
       ELSE /\ pc' = "idle"
            /\ schema_text' = val
            /\ changed' = FALSE
            /\ UNCHANGED <<escaped, db_schema>>

\* lines 13-24: the engine check, inspect(engine), get_table_names()
GS_Inspect ==
    /\ pc = "gs_inspect"
    /\ live_schema' = IF caller = "text2sql" THEN db ELSE live_schema
    /\ IF ~engine_ok
       THEN GS_Return(InvalidEngineSchema)
       ELSE \/ \E e \in DbErrors :
                  GS_Return(except_get_db_schema(Exc(e)))
            \/ /\ get_table_names(db) = <<>>
               /\ GS_Return(NoTablesWarning)
            \/ /\ get_table_names(db) # <<>>
               /\ tables' = get_table_names(db)
               /\ schema' = <<>>
               /\ ti' = 1
               /\ pc' = "gs_connect"
               /\ UNCHANGED <<escaped, db_schema, schema_text, changed, pending>>
    /\ UNCHANGED <<envVars, held, caller, origin, engine_ok, user_query,
                   contextual_prompt, reply, output, sql_query, result, ret,
                   stages, uiVars>>

\* line 26: engine.connect()
GS_Connect ==
    /\ pc = "gs_connect"
    /\ \/ \E e \in DbErrors :
              GS_Return(except_get_db_schema(Exc(e))) /\ UNCHANGED held
       \/ /\ held' = held + 1
          /\ pc' = "gs_loop"
          /\ UNCHANGED <<escaped, db_schema, schema_text, changed, gsVars, pending>>
    /\ UNCHANGED <<envVars, caller, origin, engine_ok, user_query,
                   contextual_prompt, reply, output, sql_query, result, ret,
                   ghostVars, uiVars>>

\* lines 27-48: one table per step, inside the with-block
GS_Loop ==
    /\ pc = "gs_loop"
    /\ \/ /\ ti <= Len(tables)
          /\ \E e \in DbErrors : pending' = Exc(e)
          /\ pc' = "gs_exit"
          /\ UNCHANGED gsVars
       \/ /\ ti <= Len(tables)
          /\ schema' = schema \o Block(tables[ti], create_stmt(db, dialect, tables[ti]))
          /\ ti' = ti + 1
          /\ UNCHANGED <<pc, pending, tables>>
       \/ /\ ti > Len(tables)
          /\ pending' = Str(schema)
          /\ pc' = "gs_exit"
          /\ UNCHANGED gsVars
    /\ UNCHANGED <<envVars, held, caller, origin, escaped, engine_ok, t2sVars,
                   ghostVars, viewVars, uiVars>>

\* the with-block is left (lines 26, 49, 51-52)
GS_Exit ==
    /\ pc = "gs_exit"
    /\ held' = ReleaseOnExit(held, IsExc(pending))
    /\ GS_Return(except_get_db_schema(pending))
    /\ UNCHANGED <<envVars, caller, origin, engine_ok, user_query,
                   contextual_prompt, reply, output, sql_query, result, ret,
                   ghostVars, uiVars>>

\* ------------------------------------------------------------------ execute_query
\* except Exception as e: return f"... SQL Execution Error: {e}"
except_execute_query(v) ==
    IF IsExc(v) THEN Str(<<"SQL Execution Error: ">> \o v.msg) ELSE v

\* the SQL text withheld when execution failed
ReturnPair_NoneOnError(sql, res) ==
    IF res.type = "str" THEN <<NoneV, res>> ELSE <<sql, res>>

\* return sql_query, result
ReturnPair(sql, res) == <<sql, res>>

\* execute_query returns val to text2sql, which returns the pair
EX_Return(val) ==
    /\ pending' = NoneV
    /\ IF IsExc(val)
       THEN pc' = "raised" /\ escaped' = TRUE /\ UNCHANGED <<result, ret>>
       ELSE /\ pc' = "done"
            /\ result' = val
            /\ ret' = ReturnPair(sql_query, val)
            /\ UNCHANGED escaped

\* lines 104-109: the engine check and engine.connect()
EX_Connect ==
    /\ pc = "ex_connect"
    /\ IF ~engine_ok
       THEN EX_Return(Str(<<"execute_query expected SQLAlchemy Engine">>))
            /\ UNCHANGED held
       ELSE \/ \E e \in DbErrors :
                  EX_Return(except_execute_query(Exc(e))) /\ UNCHANGED held
            \/ /\ held' = held + 1
               /\ pc' = "ex_run"
               /\ UNCHANGED <<escaped, result, ret, pending>>
    /\ UNCHANGED <<envVars, caller, origin, engine_ok, gsVars, user_query,
                   db_schema, contextual_prompt, reply, output, sql_query,
                   ghostVars, viewVars, uiVars>>

\* line 111: pd.read_sql_query(text(query), conn); text() raises on a non-string
EX_Run ==
    /\ pc = "ex_run"
    /\ \/ sql_query.type # "str" /\ pending' = Exc(<<"TypeError">>)
       \/ sql_query.type = "str" /\ \E e \in DbErrors : pending' = Exc(e)
       \/ sql_query.type = "str" /\ pending' = DataFrame(sql_query.s)
    /\ pc' = "ex_exit"
    /\ UNCHANGED <<envVars, held, caller, origin, escaped, engine_ok, gsVars,
                   t2sVars, ghostVars, viewVars, uiVars>>

\* the with-block is left (lines 109, 112-114)
EX_Exit ==
    /\ pc = "ex_exit"
    /\ held' = ReleaseOnExit(held, IsExc(pending))
    /\ EX_Return(except_execute_query(pending))
    /\ UNCHANGED <<envVars, caller, origin, engine_ok, gsVars, user_query,
                   db_schema, contextual_prompt, reply, output, sql_query,
                   ghostVars, viewVars, uiVars>>

\* ------------------------------------------------------------------ text2sql
QuestionAlphabet == {SP, "a"}
Questions == {Str(q) : q \in SeqsUpTo(QuestionAlphabet, MaxQLen)} \cup {NoneV}

\* the length test without .strip()
RejectsQuestion_NoStrip(q) ==
    IF q.type = "None" THEN TRUE
    ELSE q.s = <<>> \/ Len(q.s) < 3

\* not user_query or len(user_query.strip()) < 3
RejectsQuestion(q) ==
    IF q.type = "None" THEN TRUE
    ELSE q.s = <<>> \/ Len(strip(q.s)) < 3

MeaningfulWarning == Str(<<"Please enter a meaningful question.">>)
InternalEngineError == Str(<<"Internal error: engine is not a SQLAlchemy Engine.">>)

\* "MySQL" if dialect == "mysql" else "SQLite" if dialect == "sqlite" else dialect
db_type(dia) ==
    IF dia = "mysql" THEN "MySQL" ELSE IF dia = "sqlite" THEN "SQLite" ELSE dia

\* every status but "error" taken for success
IsSuccess_NotError(out) ==
    out.type = "dict" /\ DictGet(out, KeyStatus) # Str(<<"error">>)

\* isinstance(output, dict) and output.get("status") == "success"
IsSuccess(out) ==
    out.type = "dict" /\ DictGet(out, KeyStatus) = Str(<<"success">>)

\* lines 117-131: text2sql is entered with question q and an engine
Text2sqlCall(q, ok, who) ==
    /\ pc = "idle"
    /\ user_query' = q
    /\ engine_ok' = ok
    /\ origin' = who
    /\ db_schema' = NoneV
    /\ contextual_prompt' = NoneV
    /\ reply' = NoneV
    /\ output' = NoneV
    /\ sql_query' = NoneV
    /\ result' = NoneV
    /\ IF RejectsQuestion(q)
       THEN /\ ret' = <<NoneV, MeaningfulWarning>>
            /\ pc' = "done"
            /\ stages' = <<>>
            /\ UNCHANGED caller
       ELSE IF ~ok
       THEN /\ ret' = <<NoneV, InternalEngineError>>
            /\ pc' = "done"
            /\ stages' = <<>>
            /\ UNCHANGED caller
       ELSE /\ ret' = <<>>
            /\ pc' = "gs_inspect"
            /\ caller' = "text2sql"
            /\ stages' = <<"introspect">>
    /\ UNCHANGED <<envVars, held, escaped, gsVars, pending, live_schema>>

ReplySamples ==
    { Reply(Envelope("success", JsonString(<<"select", SP, "x">>))),
      Reply(FenceJson \o <<NL>>
            \o Envelope("clarification_needed", JsonString(<<"Which date column?">>))
            \o <<NL>> \o Fence),
      Reply(Envelope("error", JsonString(<<"x">>))),
      Reply(Envelope("success", <<"null">>)),
      Reply(<<"SELECT", SP, "x">>),
      Reply(<<"x">>),
      Raise(<<"timeout">>) }

\* get_sql_query on each sampled reply
SampleOutcome == [r \in ReplySamples |-> get_sql_query(r)]

\* lines 133-147: the prompt is composed and get_sql_query is called
T2S_Complete ==
    /\ pc = "t2s_complete"
    /\ contextual_prompt' = [type |-> "prompt", db_type |-> db_type(dialect),
                              db_schema |-> db_schema]
    /\ stages' = Append(stages, "complete")
    /\ \E r \in ReplySamples :
          LET out == SampleOutcome[r] IN
          /\ reply' = r
          /\ output' = IF IsExc(out) THEN output ELSE out
          /\ pc' = IF IsExc(out) THEN "raised" ELSE "t2s_branch"
          /\ escaped' = (escaped \/ IsExc(out))
    /\ UNCHANGED <<envVars, held, caller, origin, engine_ok, gsVars, pending,
                   user_query, db_schema, sql_query, result, ret, live_schema,
                   viewVars, uiVars>>

\* lines 149-156
T2S_Branch ==
    /\ pc = "t2s_branch"
    /\ \/ /\ IsSuccess(output)
          /\ sql_query' = DictGet(output, KeyResponse)
          /\ stages' = Append(stages, "execute")
          /\ pc' = "ex_connect"
          /\ UNCHANGED ret
       \/ /\ ~IsSuccess(output)
          /\ ret' = <<NoneV, DictGet(output, KeyResponse)>>
          /\ pc' = "done"
          /\ UNCHANGED <<sql_query, stages>>
    /\ UNCHANGED <<envVars, held, caller, origin, escaped, engine_ok, gsVars,
                   pending, user_query, db_schema, contextual_prompt, reply, output,
                   result, live_schema, viewVars, uiVars>>

NoDatabase == [t \in TableSet |-> "absent"]

\* text2sql's locals are gone once its caller has the pair
FrameDropped ==
    /\ user_query' = NoneV
    /\ db_schema' = NoneV
    /\ contextual_prompt' = NoneV
    /\ reply' = NoneV
    /\ output' = NoneV
    /\ sql_query' = NoneV
    /\ result' = NoneV
    /\ ret' = <<>>
    /\ stages' = <<>>
    /\ live_schema' = NoDatabase

\* a direct caller of text2sql has its pair
T2S_Return ==
    /\ pc = "done"
    /\ origin = "api"
    /\ pc' = "idle"
    /\ FrameDropped
    /\ UNCHANGED <<envVars, held, caller, origin, escaped, engine_ok, gsVars,
                   pending, viewVars, uiVars>>

ApiQuestions == {Str(<<"a", "a", "a">>), Str(<<"a">>)}

\* text2sql called directly on the live database
ApiCall ==
    /\ \E q \in ApiQuestions, ok \in BOOLEAN : Text2sqlCall(q, ok, "api")
    /\ schema_text' = NoneV
    /\ changed' = FALSE
    /\ UNCHANGED uiVars

\* text2sql called directly with any question
ValidateCall ==
    /\ \E q \in Questions : Text2sqlCall(q, TRUE, "api")
    /\ UNCHANGED <<viewVars, uiVars>>

\* ------------------------------------------------------------------ the database changes
\* another client creates, drops or alters a table; not while a
\* get_db_schema call is between its enumeration and its return
SchemaChange ==
    /\ ~InGetDbSchema
    /\ \E t \in TableSet, v \in DDLs \cup {"absent"} :
          /\ v # db[t]
          /\ db' = [db EXCEPT ![t] = v]
    /\ changed' = TRUE
    /\ UNCHANGED <<dialect, held, pc, caller, origin, escaped, engine_ok, gsVars,
                   pending, t2sVars, ghostVars, schema_text, uiVars>>

\* ------------------------------------------------------------------ app.py
\* get_db_schema called on its own: the schema panel (lines 181-185)
DescribeCall ==
    /\ pc = "idle"
    /\ engine_ok' = TRUE
    /\ caller' = "app"
    /\ pc' = "gs_inspect"
    /\ UNCHANGED <<envVars, held, origin, escaped, gsVars, pending, t2sVars,
                   ghostVars, viewVars, uiVars>>

\* lines 194-195
toggle_history ==
    /\ pc = "idle"
    /\ show_history' = ~show_history
    /\ UNCHANGED <<envVars, held, pc, caller, origin, escaped, engine_ok, gsVars,
                   pending, t2sVars, ghostVars, viewVars, question_history,
                   last_sql_query, last_result>>

\* lines 197-201; the button is drawn only while the history is shown (line 217)
reset_conversation ==
    /\ pc = "idle"
    /\ show_history
    /\ question_history' = <<>>
    /\ last_sql_query' = NoneV
    /\ last_result' = NoneV
    /\ UNCHANGED <<envVars, held, pc, caller, origin, escaped, engine_ok, gsVars,
                   pending, t2sVars, ghostVars, viewVars, show_history>>

UIQuestions ==
    {Str(<<"a", "a", "a">>), Str(<<"a", SP, "a">>), Str(<<"a">>), Str(<<SP>>)}

\* lines 141-151: the Execute button
ExecuteClick ==
    \E q \in UIQuestions :
       \/ /\ pc = "idle"
          /\ strip(q.s) = <<>>
          /\ UNCHANGED vars
       \/ /\ strip(q.s) # <<>>
          /\ Len(question_history) < MaxHistory
          /\ question_history' =
                IF question_history = <<>>
                      \/ q # question_history[Len(question_history)]
                THEN Append(question_history, q)
                ELSE question_history
          /\ Text2sqlCall(q, TRUE, "ui")
          /\ UNCHANGED <<last_sql_query, last_result, show_history, viewVars>>

\* lines 154-155
ExecuteStore ==
    /\ pc = "done"
    /\ origin = "ui"
    /\ last_sql_query' = ret[1]
    /\ last_result' = ret[2]
    /\ pc' = "idle"
    /\ FrameDropped
    /\ UNCHANGED <<envVars, held, caller, origin, escaped, engine_ok, gsVars,
                   pending, viewVars, question_history, show_history>>

\* ------------------------------------------------------------------ specifications
InitCommon ==
    /\ held = 0
    /\ pc = "idle"
    /\ caller = "app"
    /\ origin = "api"
    /\ escaped = FALSE
    /\ engine_ok = TRUE
    /\ user_query = NoneV
    /\ tables = <<>>
    /\ schema = <<>>
    /\ ti = 0
    /\ pending = NoneV
    /\ db_schema = NoneV
    /\ contextual_prompt = NoneV
    /\ reply = NoneV
    /\ output = NoneV
    /\ sql_query = NoneV
    /\ result = NoneV
    /\ ret = <<>>
    /\ stages = <<>>
    /\ live_schema = NoDatabase
    /\ schema_text = NoneV
    /\ changed = FALSE
    /\ question_history = <<>>
    /\ last_sql_query = NoneV
    /\ last_result = NoneV
    /\ show_history = FALSE

\* the pipeline, called directly and from the schema panel, on a live database
Init ==
    /\ db \in Databases
    /\ dialect \in Dialects
    /\ InitCommon

Pipeline ==
    \/ GS_Inspect \/ GS_Connect \/ GS_Loop \/ GS_Exit
    \/ T2S_Complete \/ T2S_Branch
    \/ EX_Connect \/ EX_Run \/ EX_Exit

Next ==
    \/ ApiCall \/ Pipeline \/ T2S_Return
    \/ SchemaChange \/ DescribeCall

Spec == Init /\ [][Next]_vars

\* the Streamlit session: Execute, Reset Conversation, Show History
InitUI ==
    /\ db = [t \in TableSet |-> "ddl_v1"]
    /\ dialect = "sqlite"
    /\ InitCommon

NextUI ==
    \/ ExecuteClick \/ Pipeline \/ ExecuteStore
    \/ toggle_history \/ reset_conversation

\* the interpreter runs every step of a call it has started
FairSpec == Spec /\ WF_vars(Pipeline) /\ WF_vars(T2S_Return)

SpecUI == InitUI /\ [][NextUI]_vars

\* text2sql on every question explored, on one database
NextValidate == ValidateCall \/ Pipeline \/ T2S_Return

SpecValidate == InitUI /\ [][NextValidate]_vars

\* get_sql_query alone, on every completion output explored
InitInterp ==
    /\ db = NoDatabase
    /\ dialect = "sqlite"
    /\ held = 0
    /\ pc = "gsq_call"
    /\ caller = "app"
    /\ origin = "api"
    /\ escaped = FALSE
    /\ engine_ok = TRUE
    /\ user_query = NoneV
    /\ tables = <<>>
    /\ schema = <<>>
    /\ ti = 0
    /\ pending = NoneV
    /\ db_schema = NoneV
    /\ contextual_prompt = NoneV
    /\ reply \in Replies
    /\ output = NoneV
    /\ sql_query = NoneV
    /\ result = NoneV
    /\ ret = <<>>
    /\ stages = <<>>
    /\ live_schema = NoDatabase
    /\ schema_text = NoneV
    /\ changed = FALSE
    /\ question_history = <<>>
    /\ last_sql_query = NoneV
    /\ last_result = NoneV
    /\ show_history = FALSE

\* lines 55-97
GetSqlQuery ==
    /\ pc = "gsq_call"
    /\ output' = get_sql_query(reply)
    /\ pc' = "gsq_returned"
    /\ UNCHANGED <<envVars, held, caller, origin, escaped, engine_ok, gsVars,
                   pending, user_query, db_schema, contextual_prompt, reply,
                   sql_query, result, ret, ghostVars, viewVars, uiVars>>

NextInterp == GetSqlQuery

SpecInterp == InitInterp /\ [][NextInterp]_vars

\* ================================================================== claims
\* ------------------------------------------------------------------ helpers of the claims
Returned == pc = "done"
Elems(q) == {q[i] : i \in 1..Len(q)}
NonWhitespaceCount(t) == Cardinality({i \in 1..Len(t) : t[i] \notin Whitespace})

\* length of t between its first and its last non-whitespace character
TrimmedLength(t) ==
    LET ink == {i \in 1..Len(t) : t[i] \notin Whitespace}
    IN IF ink = {} THEN 0
       ELSE (CHOOSE i \in ink : \A j \in ink : j <= i)
            - (CHOOSE i \in ink : \A j \in ink : i <= j) + 1

StartsWith(v, lexeme) == v.type = "str" /\ v.s # <<>> /\ v.s[1] = lexeme
IsSchemaError(v) == StartsWith(v, SchemaErrorPrefix)
IsExecutionError(v) == StartsWith(v, "SQL Execution Error: ")
StatusOf(out) == IF out.type = "dict" THEN DictGet(out, KeyStatus) ELSE NoneV
StatusIsExactlySuccess(out) ==
    /\ StatusOf(out).type = "str"
    /\ StatusOf(out).s = <<"success">>
Interpreted == output.type = "dict"

\* ------------------------------------------------------------------ C1
\* C1 as stated (checked under SpecValidate): a question with fewer than 3
\* non-whitespace characters is answered (None, warning) and no component runs.
C1_FewNonWhitespaceRejected ==
    (pc # "idle" /\ user_query.type = "str" /\ NonWhitespaceCount(user_query.s) < 3)
        => /\ Returned
           /\ ret = <<NoneV, MeaningfulWarning>>
           /\ stages = <<>>

\* C1 amended (checked under SpecValidate): a question that is None, empty, or
\* shorter than 3 characters once leading and trailing whitespace is trimmed is
\* answered (None, warning) at once: no introspection, no completion call, no
\* query execution, no connection taken.
C1_TrimmedShortRejected ==
    (pc # "idle" /\ (user_query.type = "None" \/ TrimmedLength(user_query.s) < 3))
        => /\ Returned
           /\ ret = <<NoneV, MeaningfulWarning>>
           /\ stages = <<>>
           /\ held = 0
           /\ output = NoneV /\ db_schema = NoneV /\ result = NoneV

C1_Witness ==
    /\ Returned
    /\ user_query = Str(<<SP, "a", SP>>)
    /\ ret = <<NoneV, MeaningfulWarning>>

\* ------------------------------------------------------------------ C2
\* C2 (checked under Spec): the executor is invoked only after an outcome whose
\* status is exactly "success"; after any other outcome, a gateway failure
\* included, text2sql returns (None, outcome message) and nothing was executed.
C2_OnlySuccessExecuted ==
    /\ ("execute" \in Elems(stages) \/ pc \in {"ex_connect", "ex_run", "ex_exit"})
          => StatusIsExactlySuccess(output)
    /\ (Returned /\ Interpreted /\ ~StatusIsExactlySuccess(output))
          => /\ ret = <<NoneV, DictGet(output, KeyResponse)>>
             /\ "execute" \notin Elems(stages)
             /\ result = NoneV
             /\ sql_query = NoneV
    /\ (Interpreted /\ reply.raised) => ~StatusIsExactlySuccess(output)

C2_Witness ==
    /\ Returned
    /\ StatusOf(output) = Str(<<"clarification_needed">>)
    /\ ret = <<NoneV, Str(<<"Which date column?">>)>>
    /\ stages = <<"introspect", "complete">>

\* ------------------------------------------------------------------ C3
SomeStageFailed ==
    \/ stages = <<>>
    \/ IsSchemaError(db_schema)
    \/ (Interpreted /\ ~StatusIsExactlySuccess(output))
    \/ IsExecutionError(result)

\* C3 as stated (checked under Spec): the first element of the returned pair is
\* None if and only if some stage failed (validation, introspection, gateway,
\* interpretation or SQL execution).
C3_NoneIffFailed ==
    Returned => ((ret[1] = NoneV) <=> SomeStageFailed)

\* C3 amended (checked under Spec): the pair is (None, message) exactly when the
\* question or the engine was rejected, or the outcome's status is not "success"
\* (a gateway failure included), or a success outcome carries a null response;
\* otherwise it is (sqlText, executorResult) with executorResult a table or, when
\* execution failed, an error string.
C3_NoneIffNotExecutable ==
    Returned =>
       /\ Len(ret) = 2
       /\ (ret[1] = NoneV) <=>
             \/ stages = <<>>
             \/ ~StatusIsExactlySuccess(output)
             \/ DictGet(output, KeyResponse) = NoneV
       /\ StatusIsExactlySuccess(output) =>
             /\ ret = <<DictGet(output, KeyResponse), result>>
             /\ (result.type = "DataFrame" \/ IsExecutionError(result))
       /\ ret[1] = NoneV => ret[2].type \in {"str", "None"}

C3_Witness ==
    /\ Returned
    /\ ret[1] = Str(<<"SELECT", SP, "x">>)
    /\ IsExecutionError(ret[2])

\* ------------------------------------------------------------------ C4
C4_Safe ==
    /\ ~escaped
    /\ pc # "raised"
    /\ Returned =>
          /\ Len(ret) = 2
          /\ ret[1].type \in {"None", "str"}
          /\ ret[2].type \in {"None", "str", "DataFrame"}
    /\ (Interpreted /\ reply.raised) =>
          output = Outcome("error", Str(<<"AI communication error: ">> \o reply.text))
    /\ (Returned /\ Interpreted /\ reply.raised) =>
          ret = <<NoneV, Str(<<"AI communication error: ">> \o reply.text)>>

\* C4 (checked under FairSpec): whatever fails (introspection, the completion
\* service, SQL execution), no exception leaves text2sql, every started call
\* returns a well-formed pair, and a completion-service exception becomes an
\* error outcome carrying the exception's message.
C4_AlwaysReturnsPair ==
    /\ []C4_Safe
    /\ (pc \notin {"idle", "done"} /\ caller = "text2sql") ~> Returned

C4_Witness ==
    /\ Returned
    /\ IsSchemaError(db_schema)
    /\ reply.type # "None" /\ reply.raised
    /\ ret = <<NoneV, Str(<<"AI communication error: ", "timeout">>)>>

\* ------------------------------------------------------------------ C5
GsqReturned == pc = "gsq_returned"
FencePrefixes == {<<>>, Fence, FenceJson, FenceSql \o <<NL>>, <<SP>>}

\* C5 as stated (checked under SpecInterp): a JSON object with status "success"
\* and a string response, wrapped in fence markers or not, yields a success
\* outcome whose SQL is the response string, whatever that string contains.
C5_ResponseVerbatim ==
    (GsqReturned /\ ~reply.raised) =>
        \A p \in FencePrefixes, x \in Suffixes, r \in BodyTexts :
            reply.text = p \o Envelope("success", JsonString(r)) \o x
                => output = Outcome("success", Str(r))

\* ------------------------------------------------------------------ C6
BeginsWithVerb(c) == c # <<>> /\ LowerLexeme(c[1]) \in sql_verbs
HasBothKeys(v) ==
    v.type = "dict" /\ KeyStatus \in DOMAIN v.items /\ KeyResponse \in DOMAIN v.items

\* C6 (checked under SpecInterp): an output that is not JSON once normalized
\* (trimmed, fences removed, a leading "sql " removed) and that then begins,
\* in any letter case, with a SQL verb yields success with exactly the
\* normalized text; an output that is JSON is decided by the JSON rule alone.
C6_VerbPrefixedIsSuccess ==
    (GsqReturned /\ ~reply.raised) =>
        /\ (~json_loads(Cleaned(reply.text)).ok /\ BeginsWithVerb(Cleaned(reply.text)))
              => output = Outcome("success", Str(Cleaned(reply.text)))
        /\ json_loads(Cleaned(reply.text)).ok
              => IF HasBothKeys(json_loads(Cleaned(reply.text)).val)
                 THEN output = json_loads(Cleaned(reply.text)).val
                 ELSE output = Outcome("error",
                         Str(<<"Model returned JSON but missing keys: ">>
                                 \o Cleaned(reply.text)))

C6_Witness ==
    /\ GsqReturned
    /\ reply = Reply(<<"SQL", SP, "SELECT", SP, "x", NL>> \o Fence)
    /\ output = Outcome("success", Str(<<"SELECT", SP, "x">>))

\* ------------------------------------------------------------------ C7
\* C7 (checked under Spec): a connection is held only inside a with-block;
\* once get_db_schema, execute_query or text2sql has returned, on any path,
\* none is held.
C7_ConnectionsReleased ==
    /\ held \in {0, 1}
    /\ pc \notin {"gs_loop", "gs_exit", "ex_run", "ex_exit"} => held = 0

C7_Witness ==
    /\ Returned
    /\ result = Str(<<"SQL Execution Error: ", "TypeError">>)
    /\ IsSchemaError(db_schema)
    /\ held = 0

\* ------------------------------------------------------------------ C8
PresentTables(d) == SelectSeq(TableNames, LAMBDA t : d[t] \in DDLs)

RECURSIVE RenderBlocks(_, _, _)
RenderBlocks(d, dia, ts) ==
    IF ts = <<>> THEN <<>>
    ELSE Block(Head(ts), create_stmt(d, dia, Head(ts))) \o RenderBlocks(d, dia, Tail(ts))

\* the schema description of database d
LiveRendering(d, dia) ==
    IF PresentTables(d) = <<>> THEN NoTablesWarning
    ELSE Str(RenderBlocks(d, dia, PresentTables(d)))

PromptSent == contextual_prompt.type = "prompt"
DescribeReturns ==
    caller = "app" /\ pc \in {"gs_inspect", "gs_connect", "gs_exit"} /\ pc' = "idle"

InText2sql == caller = "text2sql"

\* C9 (checked under Spec): a validated request invokes introspection once,
\* then the completion service once, then the executor at most once (exactly
\* when the outcome is a success), in that order, and nothing twice; an
\* introspection that returned an error or a no-tables string is still
\* followed by the completion call, with that string in the prompt.
C9_LinearPipeline ==
    /\ pc # "raised"
    /\ stages \in {<<>>, <<"introspect">>, <<"introspect", "complete">>,
                   <<"introspect", "complete", "execute">>}
    /\ (InText2sql /\ pc \in {"gs_inspect", "gs_connect", "gs_loop", "gs_exit",
                              "t2s_complete"})
          => stages = <<"introspect">>
    /\ pc = "t2s_branch" => stages = <<"introspect", "complete">>
    /\ pc \in {"ex_connect", "ex_run", "ex_exit"}
          => stages = <<"introspect", "complete", "execute">>
    /\ (Returned /\ stages # <<>>) =>
          /\ Len(stages) >= 2
          /\ db_schema.type = "str"
          /\ contextual_prompt.db_schema = db_schema
          /\ (Len(stages) = 3) <=> StatusIsExactlySuccess(output)
    /\ (Returned /\ stages = <<>>) =>
          ret \in {<<NoneV, MeaningfulWarning>>, <<NoneV, InternalEngineError>>}

C9_Witness ==
    /\ Returned
    /\ IsSchemaError(db_schema)
    /\ contextual_prompt.db_schema = db_schema
    /\ stages = <<"introspect", "complete", "execute">>
    /\ result.type = "DataFrame"

\* ------------------------------------------------------------------ C10
\* C10 as stated (checked under SpecUI): the question history never holds the
\* same question twice.
C10_NoDuplicateQuestions ==
    \A i, j \in 1..Len(question_history) :
        i # j => question_history[i] # question_history[j]

====
